---- MODULE Spec2Model ----
(***************************************************************************)
(* State-machine model of three pieces of UETPFCore:                       *)
(*   - UFileDeltaStore  (Source/SinglePlayerStoryTemplate, FileDeltaStore) *)
(*   - the runtime spec registries of USurfaceQuerySubsystem and           *)
(*     UEnvironmentSubsystem                                               *)
(*   - USpecPackLoader                                                     *)
(* Spec is the delta store with its background flush tasks; SpecRegistry   *)
(* is the registries together with the loader.  The two parts share no     *)
(* state in the code, so each specification leaves the other part's        *)
(* variables unchanged.                                                    *)
(***************************************************************************)
EXTENDS Integers, Sequences, FiniteSets, TLC

\* ---------------------------------------------------------------- bounds
\* Total number of Append*Delta calls explored.
MaxAppends == 2
\* Total number of Flush calls that launch a background task.
MaxFlushes == 2

\* ------------------------------------------------------------ delta store
VARIABLES
    DeltaMaps,          \* the six TMap<FWorldCellKey, TArray<Delta>> caches, by delta type
    DirtyCells,         \* TSet<FWorldCellKey> DirtyCells
    bIsInitialized,     \* bool bIsInitialized
    CurrentWorldName,   \* FString CurrentWorldName
    InitializeResult,   \* return value of the most recent Initialize call ("none" before any)
    dirs,               \* world directories that exist under BaseSaveDirectory
    files,              \* deltas.json files on disk: <<world dir, cell dir>> -> content
    tasks,              \* background tasks launched by Flush and not yet finished
    appendLog,          \* history: the Append*Delta calls on this store, in call order,
                        \*          without those for a cell cleared since
    appendedSince,      \* history: cells that received an Append since they were last flushed
    nAppends,           \* history: number of Append*Delta calls so far
    nFlushes            \* history: number of tasks launched so far

storeVars == <<DeltaMaps, DirtyCells, bIsInitialized, CurrentWorldName, InitializeResult,
               dirs, files, tasks, appendLog, appendedSince, nAppends, nFlushes>>

\* EDeltaType: one in-memory map and one Append/Get pair per type.
DeltaTypes == {"Surface", "Fracture", "Transform", "Spawn", "Remove", "Assembly"}

\* FWorldCellKey values used as inputs: two keys that differ in LOD only.
CellKey(x, y, lod) == [X |-> x, Y |-> y, LOD |-> lod]
CellKeys == {CellKey(0, 0, 0), CellKey(0, 0, 1)}

\* The types the explored Append calls use; the code of all six is the same.
AppendTypes == {"Surface", "Spawn"}

WorldNames == {"A", "B"}

\* FWorldCellKey::operator==
KeyEqNoLOD(a, b) == a.X = b.X /\ a.Y = b.Y
KeyEq(a, b) == a.X = b.X /\ a.Y = b.Y /\ a.LOD = b.LOD

\* FWorldCellKey::ToString: "(%d,%d,LOD%d)", as the list of its pieces.
CellKeyToString(k) == <<"(", k.X, ",", k.Y, ",LOD", k.LOD, ")">>

\* TMap::Contains / TMap::Find on a map keyed by FWorldCellKey (a function whose
\* domain is the set of keys present).
MapContains(m, k) == \E e \in DOMAIN m : KeyEq(e, k)
MapKey(m, k) == CHOOSE e \in DOMAIN m : KeyEq(e, k)
MapFind(m, k) == IF MapContains(m, k) THEN m[MapKey(m, k)] ELSE <<>>

\* TMap::FindOrAdd(k).Add(d)
MapFindOrAddAppend(m, k, d) ==
    IF MapContains(m, k)
    THEN [m EXCEPT ![MapKey(m, k)] = Append(@, d)]
    ELSE [e \in DOMAIN m \cup {k} |-> IF e = k THEN <<d>> ELSE m[e]]

\* TMap::Remove(k)
MapRemove(m, k) == [e \in {x \in DOMAIN m : ~KeyEq(x, k)} |-> m[e]]

\* TSet::Add / TSet::Remove
SetAdd(s, k) == IF \E e \in s : KeyEq(e, k) THEN s ELSE s \cup {k}
SetRemove(s, k) == {e \in s : ~KeyEq(e, k)}

EmptyMap == [e \in {} |-> <<>>]

\* Get<Type>Deltas(CellKey): the found array, or an empty array.
GetDeltas(t, k) == MapFind(DeltaMaps[t], k)

\* UFileDeltaStore() and the default member initialisers: a new store object.
\* Files on disk and tasks already launched outlive the object.
NewStore ==
    /\ DeltaMaps' = [t \in DeltaTypes |-> EmptyMap]
    /\ DirtyCells' = {}
    /\ bIsInitialized' = FALSE
    /\ CurrentWorldName' = ""
    /\ InitializeResult' = "none"
    /\ appendLog' = <<>>
    /\ appendedSince' = {}
    /\ UNCHANGED <<dirs, files, tasks, nAppends, nFlushes>>

\* Initialize(WorldName).  CreateDirectoryTree may fail (created = FALSE).
Initialize(WorldName, created) ==
    /\ CurrentWorldName' = WorldName
    /\ IF WorldName \notin dirs /\ ~created
       THEN /\ InitializeResult' = "false"
            /\ UNCHANGED <<bIsInitialized, dirs>>
       ELSE /\ dirs' = dirs \cup {WorldName}
            /\ bIsInitialized' = TRUE
            /\ InitializeResult' = "true"
    /\ UNCHANGED <<DeltaMaps, DirtyCells, files, tasks, appendLog, appendedSince,
                   nAppends, nFlushes>>

\* Append<Type>Delta(Delta), the same code for each of the six types.
AppendDelta(t, Delta) ==
    /\ nAppends < MaxAppends
    /\ DeltaMaps' = [DeltaMaps EXCEPT ![t] = MapFindOrAddAppend(@, Delta.CellKey, Delta)]
    /\ DirtyCells' = SetAdd(DirtyCells, Delta.CellKey)
    /\ appendLog' = Append(appendLog, [type |-> t, delta |-> Delta])
    /\ appendedSince' = appendedSince \cup {Delta.CellKey}
    /\ nAppends' = nAppends + 1
    /\ UNCHANGED <<bIsInitialized, CurrentWorldName, InitializeResult, dirs, files,
                   tasks, nFlushes>>

\* ClearCellDeltas(CellKey)
ClearCellDeltas(k) ==
    /\ DeltaMaps' = [t \in DeltaTypes |-> MapRemove(DeltaMaps[t], k)]
    /\ DirtyCells' = SetRemove(DirtyCells, k)
    /\ appendLog' = SelectSeq(appendLog, LAMBDA e : e.delta.CellKey # k)
    /\ UNCHANGED <<bIsInitialized, CurrentWorldName, InitializeResult, dirs, files,
                   tasks, appendedSince, nAppends, nFlushes>>

\* CellsToFlush = DirtyCells.Array(): the dirty cells in the set's iteration order,
\* which depends on the set's slot reuse; any order is possible.
Orderings(S) ==
    {s \in [1..Cardinality(S) -> S] : \A e \in S : \E i \in 1..Cardinality(S) : s[i] = e}

\* The six <Type>Copy maps Flush builds: for each dirty cell, each type's array
\* when the type's map has an entry for the cell.
FlushCopiesDirtyOnlyFirst(cells) ==
    [t \in DeltaTypes |->
        [k \in {c \in cells : MapContains(DeltaMaps[t], c) /\ t = "Surface"} |->
            MapFind(DeltaMaps[t], k)]]
FlushCopies(cells) ==
    [t \in DeltaTypes |->
        [k \in {c \in cells : MapContains(DeltaMaps[t], c)} |-> MapFind(DeltaMaps[t], k)]]

\* Flush(): the part that runs on the game thread.  It returns early on an
\* uninitialized store or when nothing is dirty; otherwise it copies the dirty
\* cells' arrays, empties DirtyCells and launches the task.
Flush ==
    IF ~bIsInitialized \/ DirtyCells = {}
    THEN UNCHANGED storeVars
    ELSE /\ nFlushes < MaxFlushes
         /\ \E order \in Orderings(DirtyCells) :
               tasks' = Append(tasks, [SaveDir |-> CurrentWorldName,
                                       CellsToFlush |-> order,
                                       Copies |-> FlushCopies(DirtyCells),
                                       next |-> 1])
         /\ DirtyCells' = {}
         /\ appendedSince' = appendedSince \ DirtyCells
         /\ nFlushes' = nFlushes + 1
         /\ UNCHANGED <<DeltaMaps, bIsInitialized, CurrentWorldName, InitializeResult,
                        dirs, files, appendLog, nAppends>>

\* What the task's lambda reads: its own captured copies (captured by value).
TaskSourceLive(T) == DeltaMaps
TaskSource(T) == T.Copies

\* FJsonObjectConverter::UStructToJsonObject(Delta): the struct's properties under
\* their standardized (first letter lowered) names.
UStructToJsonObject(d) ==
    [cellKey |-> [x |-> d.CellKey.X, y |-> d.CellKey.Y, lOD |-> d.CellKey.LOD],
     timestamp |-> d.Timestamp]

\* The JSON field each type's array is written under.
FieldName(t) ==
    CASE t = "Surface" -> "surface_deltas"
      [] t = "Fracture" -> "fracture_deltas"
      [] t = "Transform" -> "transform_deltas"
      [] t = "Spawn" -> "spawn_deltas"
      [] t = "Remove" -> "remove_deltas"
      [] t = "Assembly" -> "assembly_deltas"

\* The CellData object the task builds for one cell: the "cell" field, and one
\* array field per type that has an entry for the cell in the task's copies.
\* (Its "timestamp" field, the wall clock at the write, is left out.)
CellData(T, k) ==
    [cell |-> CellKeyToString(k),
     arrays |-> [f \in {FieldName(t) : t \in {u \in DeltaTypes : MapContains(TaskSource(T)[u], k)}} |->
                    LET t == CHOOSE u \in DeltaTypes : FieldName(u) = f
                        a == MapFind(TaskSource(T)[t], k)
                    IN [i \in 1..Len(a) |-> UStructToJsonObject(a[i])]]]

\* One iteration of the task's loop over CellsToFlush, on a worker thread: create
\* the cell directory and save deltas.json.  The results of CreateDirectoryTree and
\* SaveStringToFile are ignored; ok = FALSE is the case where the I/O fails.
TaskWriteCell(i, ok) ==
    /\ i \in 1..Len(tasks)
    /\ LET T == tasks[i]
           k == T.CellsToFlush[T.next]
           path == <<T.SaveDir, CellKeyToString(k)>>
       IN /\ IF ok
             THEN /\ dirs' = dirs \cup {T.SaveDir}
                  /\ files' = [p \in DOMAIN files \cup {path} |->
                                  IF p = path THEN CellData(T, k) ELSE files[p]]
             ELSE UNCHANGED <<dirs, files>>
          /\ tasks' = IF T.next = Len(T.CellsToFlush)
                      THEN SubSeq(tasks, 1, i - 1) \o SubSeq(tasks, i + 1, Len(tasks))
                      ELSE [tasks EXCEPT ![i].next = @ + 1]
    /\ UNCHANGED <<DeltaMaps, DirtyCells, bIsInitialized, CurrentWorldName,
                   InitializeResult, appendLog, appendedSince, nAppends, nFlushes>>

\* ------------------------------------------ spec registries and SpecPack loader
VARIABLES
    RuntimeSurfaceSpecs,  \* USurfaceQuerySubsystem: TMap<FName, FRuntimeSurfaceSpec>
    RuntimeMediumSpecs,   \* UEnvironmentSubsystem: TMap<FName, FRuntimeMediumSpec>
    MediumSpecMap,        \* UEnvironmentSubsystem: TMap<FName, UMediumSpec*> (DataAsset workflow)
    CachedManifests,      \* USpecPackLoader: TMap<FString, FSpecPackManifest>
    LoadResult,           \* the FSpecPackLoadResult the most recent LoadSpecPack returned
    lastSurface,          \* history: per Id, the spec most recently registered (since emptied)
    lastMedium            \* history: the same for the runtime medium registry

regVars == <<RuntimeSurfaceSpecs, RuntimeMediumSpecs, MediumSpecMap, CachedManifests,
             LoadResult, lastSurface, lastMedium>>

\* UEnvironmentSubsystem: the volumes and the defaults of the environment query.
VARIABLES
    RegisteredVolumes,      \* TArray<UEnvironmentVolumeComponent*>, in registration order
    DefaultMediumSpec,      \* UMediumSpec* (NullAsset for nullptr)
    GlobalAtmosphereField   \* TObjectPtr<UGlobalAtmosphereField>: TRUE when set, FALSE for null

envVars == <<RegisteredVolumes, DefaultMediumSpec, GlobalAtmosphereField>>

\* UTimeSubsystem (one per game instance), the worlds whose
\* UTimeWorldBridgeSubsystem tick, and the engine frame in progress.  Times are in
\* units of 1/240 s.
VARIABLES
    SimTimeSeconds, TimeScale, bPaused, bAllowNegativeTimeScale,
    ClockMode,            \* "RealTime" or "FixedStep"
    FixedStepSeconds, LastStepSeconds, Accumulator,
    LoadedWorlds,         \* the worlds loaded, each with its own bridge subsystem
    inFrame,              \* an engine frame is in progress
    FrameDelta,           \* the DeltaTime of the frame in progress or just ended
    Ticked,               \* the worlds whose bridge has ticked in this frame
    SimTimeAtFrameStart,  \* history: SimTimeSeconds when the frame began
    frameSteady,          \* history: no setter was called since the frame began
    nFrames               \* history: frames begun

clockVars == <<SimTimeSeconds, TimeScale, bPaused, bAllowNegativeTimeScale, ClockMode,
               FixedStepSeconds, LastStepSeconds, Accumulator>>
frameVars == <<LoadedWorlds, inFrame, FrameDelta, Ticked, SimTimeAtFrameStart, nFrames>>
timeVars == <<clockVars, frameVars, frameSteady>>

\* History of the delta store's flushes, recorded by SpecFlushOrder only.
VARIABLES
    lastSnapshot,   \* per file path: how many Flush calls included the cell, and the
                    \* CellData snapshot the latest of them took
    writeFailed     \* some task's file write has failed

flushHist == <<lastSnapshot, writeFailed>>

vars == <<storeVars, regVars, envVars, timeVars, flushHist>>

\* What the calls on one object leave alone: the variables of the other objects.
outsideStore == <<regVars, envVars, timeVars>>
otherThanStore == <<outsideStore, flushHist>>
otherThanRegistry == <<storeVars, envVars, timeVars, flushHist>>
otherThanEnvironment == <<storeVars, RuntimeSurfaceSpecs, RuntimeMediumSpecs,
                          CachedManifests, LoadResult, lastSurface, lastMedium, timeVars,
                          flushHist>>
otherThanTime == <<storeVars, regVars, envVars, flushHist>>

\* FName ids.  "None" is NAME_None, the id for which IsValid() is false; "Lava" is
\* an id that is only ever looked up.
RegisteredIds == {"None", "Ice"}
SpecIds == RegisteredIds \cup {"Lava"}
IsValid(Id) == Id # "None"

\* FRuntimeSurfaceSpec / FRuntimeMediumSpec values (frictions in 1/100, densities
\* in g/m^3), and the static fallback specs of the two subsystems.
FallbackSurfaceSpec == [DisplayName |-> "Default", StaticFriction |-> 70]
FallbackMediumSpec == [DisplayName |-> "Earth Atmosphere", Density |-> 1225]
SurfaceSpecValues == {FallbackSurfaceSpec, [DisplayName |-> "Ice", StaticFriction |-> 10]}
MediumSpecValues == {FallbackMediumSpec, [DisplayName |-> "Water", Density |-> 1000000]}

\* UMediumSpec* arguments: a null pointer or a DataAsset.
NullAsset == [null |-> TRUE, Density |-> 0]
MediumAssets == {NullAsset, [null |-> FALSE, Density |-> 1000000]}

EmptyRegistry == [e \in {} |-> 0]

\* TMap::Add(Key, Value): adds the pair or replaces the value of an existing key.
MapAdd(m, k, v) == [e \in DOMAIN m \cup {k} |-> IF e = k THEN v ELSE m[e]]

\* USurfaceQuerySubsystem::RegisterRuntimeSurfaceSpec
RegisterRuntimeSurfaceSpec(Id, RSpec) ==
    /\ RuntimeSurfaceSpecs' = MapAdd(RuntimeSurfaceSpecs, Id, RSpec)
    /\ lastSurface' = [e \in DOMAIN lastSurface \cup {Id} |->
                          IF e = Id THEN RSpec ELSE lastSurface[e]]
    /\ UNCHANGED <<RuntimeMediumSpecs, MediumSpecMap, CachedManifests, LoadResult,
                   lastMedium>>

\* UEnvironmentSubsystem::RegisterRuntimeMediumSpec
RegisterRuntimeMediumSpec(Id, RSpec) ==
    /\ RuntimeMediumSpecs' = MapAdd(RuntimeMediumSpecs, Id, RSpec)
    /\ lastMedium' = [e \in DOMAIN lastMedium \cup {Id} |->
                         IF e = Id THEN RSpec ELSE lastMedium[e]]
    /\ UNCHANGED <<RuntimeSurfaceSpecs, MediumSpecMap, CachedManifests, LoadResult,
                   lastSurface>>

\* UEnvironmentSubsystem::RegisterMediumSpec (DataAsset registry)
RegisterMediumSpec(SpecId, Asset) ==
    /\ MediumSpecMap' = IF IsValid(SpecId) /\ ~Asset.null
                        THEN MapAdd(MediumSpecMap, SpecId, Asset)
                        ELSE MediumSpecMap
    /\ UNCHANGED <<RuntimeSurfaceSpecs, RuntimeMediumSpecs, CachedManifests, LoadResult,
                   lastSurface, lastMedium>>

\* USurfaceQuerySubsystem::ClearRuntimeSpecs
ClearRuntimeSpecs ==
    /\ RuntimeSurfaceSpecs' = EmptyRegistry
    /\ lastSurface' = EmptyRegistry
    /\ UNCHANGED <<RuntimeMediumSpecs, MediumSpecMap, CachedManifests, LoadResult,
                   lastMedium>>

\* UEnvironmentSubsystem::ClearRuntimeMediumSpecs
ClearRuntimeMediumSpecs ==
    /\ RuntimeMediumSpecs' = EmptyRegistry
    /\ lastMedium' = EmptyRegistry
    /\ UNCHANGED <<RuntimeSurfaceSpecs, MediumSpecMap, CachedManifests, LoadResult,
                   lastSurface>>

\* UEnvironmentSubsystem::Deinitialize
EnvironmentDeinitialize ==
    /\ MediumSpecMap' = EmptyRegistry
    /\ RuntimeMediumSpecs' = EmptyRegistry
    /\ lastMedium' = EmptyRegistry
    /\ DefaultMediumSpec' = NullAsset
    /\ RegisteredVolumes' = <<>>
    /\ UNCHANGED <<RuntimeSurfaceSpecs, CachedManifests, LoadResult, lastSurface,
                   GlobalAtmosphereField>>

\* USurfaceQuerySubsystem::ResolveSurfaceSpec: the return value and OutSpec.
ResolveSurfaceSpecTrueOnMiss(Id) ==
    IF Id \in DOMAIN RuntimeSurfaceSpecs
    THEN [ret |-> TRUE, OutSpec |-> RuntimeSurfaceSpecs[Id]]
    ELSE [ret |-> TRUE, OutSpec |-> FallbackSurfaceSpec]
ResolveSurfaceSpec(Id) ==
    IF Id \in DOMAIN RuntimeSurfaceSpecs
    THEN [ret |-> TRUE, OutSpec |-> RuntimeSurfaceSpecs[Id]]
    ELSE [ret |-> FALSE, OutSpec |-> FallbackSurfaceSpec]

\* UEnvironmentSubsystem::ResolveMediumSpec: the return value and OutSpec.
ResolveMediumSpec(Id) ==
    IF Id \in DOMAIN RuntimeMediumSpecs
    THEN [ret |-> TRUE, OutSpec |-> RuntimeMediumSpecs[Id]]
    ELSE [ret |-> FALSE, OutSpec |-> FallbackMediumSpec]

\* ---- USpecPackLoader
\* A file as LoadSpecPack sees it: whether LoadFileToString succeeds, whether
\* the text deserializes to a JSON object, and the root object's fields.  An array
\* field is absent, present but no array, or an array of items; an item is an
\* object or not, with or without a string "id".
Item(isObject, hasId, id, hasValue, value) ==
    [isObject |-> isObject, hasId |-> hasId, id |-> id, hasValue |-> hasValue, value |-> value]
ArrayField(present, isArray, items) ==
    [present |-> present, isArray |-> isArray, items |-> items]
NoField == ArrayField(FALSE, FALSE, <<>>)

UnreadableFile ==
    [content |-> "", readable |-> FALSE, valid |-> FALSE,
     has_pack_id |-> FALSE, pack_id |-> "", has_version |-> FALSE, version |-> 0,
     surface_specs |-> NoField, medium_specs |-> NoField]
NotJsonFile ==
    [content |-> "not json", readable |-> TRUE, valid |-> FALSE,
     has_pack_id |-> FALSE, pack_id |-> "", has_version |-> FALSE, version |-> 0,
     surface_specs |-> NoField, medium_specs |-> NoField]
CoreFile ==
    [content |-> "core", readable |-> TRUE, valid |-> TRUE,
     has_pack_id |-> TRUE, pack_id |-> "CoreSpecs", has_version |-> TRUE, version |-> 2,
     surface_specs |-> ArrayField(TRUE, TRUE,
         <<Item(TRUE, TRUE, "Ice", TRUE, 10), Item(FALSE, FALSE, "", FALSE, 0),
           Item(TRUE, FALSE, "", TRUE, 30)>>),
     medium_specs |-> ArrayField(TRUE, TRUE, <<Item(TRUE, TRUE, "Ice", TRUE, 1000000)>>)]
BareFile ==
    [content |-> "bare", readable |-> TRUE, valid |-> TRUE,
     has_pack_id |-> FALSE, pack_id |-> "", has_version |-> FALSE, version |-> 0,
     surface_specs |-> ArrayField(TRUE, FALSE, <<>>),
     medium_specs |-> ArrayField(TRUE, TRUE, <<Item(TRUE, TRUE, "None", FALSE, 0)>>)]
SpecFiles == {UnreadableFile, NotJsonFile, CoreFile, BareFile}

FilePaths == {"Core.json", "Mod.json"}

\* FJsonObject::TryGetArrayField
TryGetArrayField(field) == field.present /\ field.isArray

\* The items ParseSurfaceSpecs / ParseMediumSpecs do not skip: objects with an "id".
ParsedItems(field) ==
    IF TryGetArrayField(field)
    THEN SelectSeq(field.items, LAMBDA it : it.isObject /\ it.hasId)
    ELSE <<>>

\* The FRuntimeSurfaceSpec / FRuntimeMediumSpec a parser builds from an item: the
\* struct's defaults, overwritten by the fields the item has.
ParsedSurfaceSpec(it) ==
    [DisplayName |-> "", StaticFriction |-> IF it.hasValue THEN it.value ELSE 80]
ParsedMediumSpec(it) ==
    [DisplayName |-> "", Density |-> IF it.hasValue THEN it.value ELSE 1225]

\* USpecPackLoader::RegisterSurfaceSpec / RegisterMediumSpec: they only log.
LoaderRegisterSurfaceSpec(registry, Id, RSpec) == registry
LoaderRegisterMediumSpec(registry, Id, RSpec) == registry

\* The registry after ParseSurfaceSpecs / ParseMediumSpecs called the loader's
\* Register function for each parsed item, in array order.
RECURSIVE SurfaceRegistryAfter(_, _)
SurfaceRegistryAfter(registry, items) ==
    IF items = <<>> THEN registry
    ELSE SurfaceRegistryAfter(
             LoaderRegisterSurfaceSpec(registry, Head(items).id, ParsedSurfaceSpec(Head(items))),
             Tail(items))
RECURSIVE MediumRegistryAfter(_, _)
MediumRegistryAfter(registry, items) ==
    IF items = <<>> THEN registry
    ELSE MediumRegistryAfter(
             LoaderRegisterMediumSpec(registry, Head(items).id, ParsedMediumSpec(Head(items))),
             Tail(items))

\* ParseSurfaceSpecs / ParseMediumSpecs / ParseBiomeSpecs: the returned counts.
ParseSurfaceSpecs(file) == Len(ParsedItems(file.surface_specs))
ParseMediumSpecs(file) == Len(ParsedItems(file.medium_specs))
ParseBiomeSpecs(file) == 0

\* GetSpecPackHash: the hash of the file's text, empty when it cannot be read.
GetSpecPackHash(file) == IF file.readable THEN <<"sha1", file.content>> ELSE <<>>

\* FSpecPackManifest defaults, and ParseManifest followed by the ContentHash
\* assignment.  (The manifest's Timestamp, the wall clock, is left out.)
DefaultManifest == [PackId |-> "", Version |-> 1, ContentHash |-> <<>>]
ParseManifest(file) ==
    [PackId |-> IF file.has_pack_id THEN file.pack_id ELSE "",
     Version |-> IF file.has_version THEN file.version ELSE 1,
     ContentHash |-> GetSpecPackHash(file)]

\* The default-constructed FSpecPackLoadResult with an error message.
FailedLoad(msg) ==
    [bSuccess |-> FALSE, ErrorMessage |-> msg, Manifest |-> DefaultManifest,
     SurfaceSpecsLoaded |-> 0, MediumSpecsLoaded |-> 0, BiomeSpecsLoaded |-> 0]

\* The FSpecPackLoadResult LoadSpecPack returns for a file.
LoadSpecPackResultNoParseCheck(FilePath, file) ==
    IF ~file.readable THEN FailedLoad(<<"Failed to read file: ", FilePath>>)
    ELSE [bSuccess |-> TRUE, ErrorMessage |-> <<>>, Manifest |-> ParseManifest(file),
          SurfaceSpecsLoaded |-> ParseSurfaceSpecs(file),
          MediumSpecsLoaded |-> ParseMediumSpecs(file),
          BiomeSpecsLoaded |-> ParseBiomeSpecs(file)]
LoadSpecPackResult(FilePath, file) ==
    IF ~file.readable THEN FailedLoad(<<"Failed to read file: ", FilePath>>)
    ELSE IF ~file.valid THEN FailedLoad(<<"Failed to parse JSON">>)
    ELSE [bSuccess |-> TRUE, ErrorMessage |-> <<>>, Manifest |-> ParseManifest(file),
          SurfaceSpecsLoaded |-> ParseSurfaceSpecs(file),
          MediumSpecsLoaded |-> ParseMediumSpecs(file),
          BiomeSpecsLoaded |-> ParseBiomeSpecs(file)]

\* USpecPackLoader::LoadSpecPack(FilePath), reading `file` at that path.
LoadSpecPack(FilePath, file) ==
    LET Result == LoadSpecPackResult(FilePath, file)
    IN /\ LoadResult' = Result
       /\ IF Result.bSuccess
          THEN /\ RuntimeSurfaceSpecs' =
                      SurfaceRegistryAfter(RuntimeSurfaceSpecs, ParsedItems(file.surface_specs))
               /\ RuntimeMediumSpecs' =
                      MediumRegistryAfter(RuntimeMediumSpecs, ParsedItems(file.medium_specs))
               /\ CachedManifests' = MapAdd(CachedManifests, FilePath, Result.Manifest)
          ELSE UNCHANGED <<RuntimeSurfaceSpecs, RuntimeMediumSpecs, CachedManifests>>
       /\ lastSurface' = RuntimeSurfaceSpecs'
       /\ lastMedium' = RuntimeMediumSpecs'
       /\ UNCHANGED MediumSpecMap

\* USpecPackLoader::GetManifest: the return value.
GetManifest(FilePath) == FilePath \in DOMAIN CachedManifests

\* USpecPackLoader::ValidateSpecPack: the return value.
ValidateSpecPack(file) ==
    /\ file.readable
    /\ file.valid
    /\ file.has_pack_id
    /\ file.has_version
    /\ (file.surface_specs.present => TryGetArrayField(file.surface_specs))
    /\ (file.medium_specs.present => TryGetArrayField(file.medium_specs))

\* --------------------------------------------------- environment volumes
\* The initial BestPriority of FindVolumeAtLocation.
INT_MIN == -2147483647 - 1

\* World locations that are queried.
Locations == {"Here", "There"}

\* The UEnvironmentVolumeComponent objects that exist: Priority, MediumSpecId and
\* WindVelocity are the component's properties; Valid is what IsValid(Volume)
\* answers; Box is the set of locations within the box; HasBody tells whether the
\* component has a physics body that can be queried for a distance.
VolumePool ==
    [Pit  |-> [Priority |-> INT_MIN, MediumSpecId |-> "Ice", Valid |-> TRUE,
               Box |-> {"Here"}, HasBody |-> FALSE, WindVelocity |-> 1],
     Hall |-> [Priority |-> 0, MediumSpecId |-> "Lava", Valid |-> TRUE,
               Box |-> {"Here", "There"}, HasBody |-> FALSE, WindVelocity |-> 2],
     Tank |-> [Priority |-> 10, MediumSpecId |-> "Ice", Valid |-> TRUE,
               Box |-> {"Here"}, HasBody |-> TRUE, WindVelocity |-> 3],
     Void |-> [Priority |-> 5, MediumSpecId |-> "None", Valid |-> TRUE,
               Box |-> {"There"}, HasBody |-> FALSE, WindVelocity |-> 4],
     Gone |-> [Priority |-> 10, MediumSpecId |-> "Ice", Valid |-> FALSE,
               Box |-> {"Here"}, HasBody |-> FALSE, WindVelocity |-> 5]]
Volumes == DOMAIN VolumePool

\* The UMediumSpec* arguments of SetDefaultMediumSpec.
DefaultAssets == {NullAsset, [null |-> FALSE, Density |-> 1225]}

\* UEnvironmentSubsystem::SetDefaultMediumSpec
SetDefaultMediumSpec(Spec) ==
    /\ DefaultMediumSpec' = Spec
    /\ UNCHANGED <<RegisteredVolumes, GlobalAtmosphereField, MediumSpecMap>>

\* UEnvironmentSubsystem::SetGlobalAtmosphereField
SetGlobalAtmosphereField(AtmosphereField) ==
    /\ GlobalAtmosphereField' = AtmosphereField
    /\ UNCHANGED <<RegisteredVolumes, DefaultMediumSpec, MediumSpecMap>>

\* TArray::Contains
ArrayContains(a, e) == \E i \in 1..Len(a) : a[i] = e

\* UEnvironmentSubsystem::RegisterVolume (Volume is never null here)
RegisterVolume(Volume) ==
    /\ RegisteredVolumes' = IF ~ArrayContains(RegisteredVolumes, Volume)
                            THEN Append(RegisteredVolumes, Volume)
                            ELSE RegisteredVolumes
    /\ UNCHANGED <<DefaultMediumSpec, GlobalAtmosphereField, MediumSpecMap>>

\* UEnvironmentSubsystem::UnregisterVolume: TArray::Remove removes every match.
UnregisterVolume(Volume) ==
    /\ RegisteredVolumes' = SelectSeq(RegisteredVolumes, LAMBDA e : e # Volume)
    /\ UNCHANGED <<DefaultMediumSpec, GlobalAtmosphereField, MediumSpecMap>>

\* UPrimitiveComponent::GetSquaredDistanceToCollision as FindVolumeAtLocation
\* calls it: the bool it returns (a distance was found) and the squared distance
\* it writes through its second argument (0 within the box).
GetSquaredDistanceToCollision(Volume, WorldLocation) ==
    LET v == VolumePool[Volume]
    IN [ret |-> v.HasBody,
        OutSquaredDistance |-> IF ~v.HasBody THEN -1
                               ELSE IF WorldLocation \in v.Box THEN 0 ELSE 10000]

\* The value of the local DistSq in FindVolumeAtLocation: the variable is
\* initialised from the call's return value, a bool converted to float, after the
\* call wrote the distance through the reference to the same variable.
DistSq(Volume, WorldLocation) ==
    IF GetSquaredDistanceToCollision(Volume, WorldLocation).ret THEN 1 ELSE 0

\* The loop of FindVolumeAtLocation over the rest of the array.
RECURSIVE FindVolumeLoop(_, _, _, _)
FindVolumeLoop(rest, WorldLocation, BestVolume, BestPriority) ==
    IF rest = <<>> THEN BestVolume
    ELSE LET Volume == Head(rest)
         IN IF ~VolumePool[Volume].Valid
            THEN FindVolumeLoop(Tail(rest), WorldLocation, BestVolume, BestPriority)
            ELSE IF /\ DistSq(Volume, WorldLocation) < 1
                    /\ VolumePool[Volume].Priority > BestPriority
                 THEN FindVolumeLoop(Tail(rest), WorldLocation, Volume,
                                     VolumePool[Volume].Priority)
                 ELSE FindVolumeLoop(Tail(rest), WorldLocation, BestVolume, BestPriority)

\* UEnvironmentSubsystem::FindVolumeAtLocation: a volume, or "nullptr".
FindVolumeAtLocation(WorldLocation) ==
    FindVolumeLoop(RegisteredVolumes, WorldLocation, "nullptr", INT_MIN)

\* UEnvironmentSubsystem::GetMediumSpec
GetMediumSpec(SpecId) ==
    IF ~IsValid(SpecId) THEN DefaultMediumSpec
    ELSE IF SpecId \in DOMAIN MediumSpecMap /\ ~MediumSpecMap[SpecId].null
         THEN MediumSpecMap[SpecId]
         ELSE DefaultMediumSpec

\* The default-constructed FEnvironmentContext.
DefaultContext == [bIsValid |-> FALSE, Density |-> 1225, WindVelocity |-> 0]

\* UEnvironmentSubsystem::BuildEnvironmentContext
BuildEnvironmentContext(MSpec, Volume) ==
    IF MSpec.null THEN DefaultContext
    ELSE [bIsValid |-> TRUE, Density |-> MSpec.Density,
          WindVelocity |-> IF Volume # "nullptr" THEN VolumePool[Volume].WindVelocity ELSE 0]

\* UGlobalAtmosphereField::CreateEnvironmentContextAtLocation: the density the
\* field computes from the altitude of the location.
CreateEnvironmentContextAtLocation(WorldLocation) ==
    [bIsValid |-> TRUE, Density |-> IF WorldLocation = "Here" THEN 1100 ELSE 400,
     WindVelocity |-> 0]

\* UEnvironmentSubsystem::GetEnvironmentAtLocation
GetEnvironmentAtLocation(WorldLocation) ==
    LET Volume == FindVolumeAtLocation(WorldLocation)
        InVolumeWithSpec ==
            /\ Volume # "nullptr"
            /\ IsValid(VolumePool[Volume].MediumSpecId)
            /\ ~GetMediumSpec(VolumePool[Volume].MediumSpecId).null
    IN IF InVolumeWithSpec
       THEN BuildEnvironmentContext(GetMediumSpec(VolumePool[Volume].MediumSpecId), Volume)
       ELSE IF GlobalAtmosphereField
            THEN CreateEnvironmentContextAtLocation(WorldLocation)
            ELSE IF ~DefaultMediumSpec.null
                 THEN BuildEnvironmentContext(DefaultMediumSpec, "nullptr")
                 ELSE DefaultContext

\* ------------------------------------------------------- simulation clock
MaxFrames == 1

Worlds == {"W1", "W2"}

\* The DeltaTime of an engine frame, the arguments of SetTimeScale and of
\* SetFixedStepSeconds (1/240 s units: 4 is 1/60 s, 240 is 1 s).
FrameDeltas == {4, 6}
TimeScales == {-1, 0, 1, 2}
FixedSteps == {0, 4}

\* FMath::Max / FMath::Clamp
FMathMax(a, b) == IF a >= b THEN a ELSE b
FMathClamp(x, lo, hi) == IF x < lo THEN lo ELSE IF x > hi THEN hi ELSE x

\* FMath::IsNearlyZero(TimeScale): |TimeScale| <= 1e-8, which for the whole-number
\* scales used here is TimeScale = 0.
IsNearlyZero(x) == x = 0

\* UTimeSubsystem::ClampAndValidate: the clamped TimeScale.
ClampAndValidate(scale, allowNegative) ==
    IF ~allowNegative THEN FMathClamp(scale, 0, 1000) ELSE FMathClamp(scale, -1000, 1000)

\* UTimeSubsystem::SetPaused
SetPaused(bInPaused) ==
    /\ bPaused' = bInPaused
    /\ frameSteady' = FALSE
    /\ UNCHANGED <<SimTimeSeconds, TimeScale, bAllowNegativeTimeScale, ClockMode,
                   FixedStepSeconds, LastStepSeconds, Accumulator, frameVars>>

\* UTimeSubsystem::SetTimeScale
SetTimeScale(InTimeScale) ==
    /\ TimeScale' = ClampAndValidate(IF ~bAllowNegativeTimeScale
                                     THEN FMathMax(0, InTimeScale) ELSE InTimeScale,
                                     bAllowNegativeTimeScale)
    /\ frameSteady' = FALSE
    /\ UNCHANGED <<SimTimeSeconds, bPaused, bAllowNegativeTimeScale, ClockMode,
                   FixedStepSeconds, LastStepSeconds, Accumulator, frameVars>>

\* UTimeSubsystem::SetAllowNegativeTimeScale
SetAllowNegativeTimeScale(bAllow) ==
    /\ bAllowNegativeTimeScale' = bAllow
    /\ TimeScale' = IF ~bAllow THEN FMathMax(0, TimeScale) ELSE TimeScale
    /\ frameSteady' = FALSE
    /\ UNCHANGED <<SimTimeSeconds, bPaused, ClockMode, FixedStepSeconds,
                   LastStepSeconds, Accumulator, frameVars>>

\* UTimeSubsystem::SetClockMode
SetClockMode(InMode) ==
    /\ ClockMode' = InMode
    /\ Accumulator' = 0
    /\ frameSteady' = FALSE
    /\ UNCHANGED <<SimTimeSeconds, TimeScale, bPaused, bAllowNegativeTimeScale,
                   FixedStepSeconds, LastStepSeconds, frameVars>>

\* UTimeSubsystem::SetFixedStepSeconds: clamped to 1/240 s .. 1 s.
SetFixedStepSeconds(InFixedStepSeconds) ==
    /\ FixedStepSeconds' = FMathClamp(InFixedStepSeconds, 1, 240)
    /\ frameSteady' = FALSE
    /\ UNCHANGED <<SimTimeSeconds, TimeScale, bPaused, bAllowNegativeTimeScale,
                   ClockMode, LastStepSeconds, Accumulator, frameVars>>

\* The two while loops of Advance in FixedStep mode, from a clock state
\* [Sim, Acc, Last]: whole steps forward while Acc >= step, or backward while
\* Acc <= -step.
RECURSIVE FixedStepForward(_, _)
FixedStepForward(c, step) ==
    IF c.Acc >= step
    THEN FixedStepForward([Sim |-> c.Sim + step, Acc |-> c.Acc - step, Last |-> step], step)
    ELSE c
RECURSIVE FixedStepBackward(_, _)
FixedStepBackward(c, step) ==
    IF c.Acc <= -step
    THEN FixedStepBackward([Sim |-> c.Sim - step, Acc |-> c.Acc + step, Last |-> -step], step)
    ELSE c

\* UTimeSubsystem::Advance(RealDeltaSeconds)
Advance(RealDeltaSeconds) ==
    IF bPaused \/ IsNearlyZero(TimeScale)
    THEN /\ LastStepSeconds' = 0
         /\ UNCHANGED <<SimTimeSeconds, Accumulator>>
    ELSE LET ScaledDelta == RealDeltaSeconds * TimeScale
         IN IF ClockMode = "RealTime"
            THEN /\ SimTimeSeconds' = SimTimeSeconds + ScaledDelta
                 /\ LastStepSeconds' = ScaledDelta
                 /\ UNCHANGED Accumulator
            ELSE LET c0 == [Sim |-> SimTimeSeconds, Acc |-> Accumulator + ScaledDelta,
                            Last |-> LastStepSeconds]
                     c1 == IF c0.Acc >= 0 THEN FixedStepForward(c0, FixedStepSeconds)
                           ELSE FixedStepBackward(c0, FixedStepSeconds)
                 IN /\ SimTimeSeconds' = c1.Sim
                    /\ Accumulator' = c1.Acc
                    /\ LastStepSeconds' = c1.Last

\* UTimeWorldBridgeSubsystem::Tick(DeltaTime) of one world's bridge, once in the
\* frame: GetTime() is the game instance's UTimeSubsystem.
BridgeTick(World) ==
    /\ inFrame
    /\ World \in LoadedWorlds \ Ticked
    /\ Advance(FrameDelta)
    /\ Ticked' = Ticked \cup {World}
    /\ UNCHANGED <<TimeScale, bPaused, bAllowNegativeTimeScale, ClockMode,
                   FixedStepSeconds, LoadedWorlds, inFrame, FrameDelta,
                   SimTimeAtFrameStart, nFrames, frameSteady>>

\* The engine begins a frame of duration DeltaTime; every loaded world's tickable
\* subsystems tick once in it.
BeginFrame(DeltaTime) ==
    /\ ~inFrame
    /\ nFrames < MaxFrames
    /\ inFrame' = TRUE
    /\ FrameDelta' = DeltaTime
    /\ Ticked' = {}
    /\ SimTimeAtFrameStart' = SimTimeSeconds
    /\ frameSteady' = TRUE
    /\ nFrames' = nFrames + 1
    /\ UNCHANGED <<clockVars, LoadedWorlds>>

\* The frame ends when every loaded world has ticked.
EndFrame ==
    /\ inFrame
    /\ Ticked = LoadedWorlds
    /\ inFrame' = FALSE
    /\ UNCHANGED <<clockVars, LoadedWorlds, FrameDelta, Ticked, SimTimeAtFrameStart,
                   nFrames, frameSteady>>

\* A world is loaded or unloaded between frames; a running game instance always
\* has a world.
LoadWorld(World) ==
    /\ ~inFrame
    /\ LoadedWorlds' = LoadedWorlds \cup {World}
    /\ UNCHANGED <<clockVars, inFrame, FrameDelta, Ticked, SimTimeAtFrameStart, nFrames,
                   frameSteady>>
UnloadWorld(World) ==
    /\ ~inFrame
    /\ LoadedWorlds \ {World} # {}
    /\ LoadedWorlds' = LoadedWorlds \ {World}
    /\ UNCHANGED <<clockVars, inFrame, FrameDelta, Ticked, SimTimeAtFrameStart, nFrames,
                   frameSteady>>

\* ------------------------------------------------------------ specifications
StoreInit ==
    /\ DeltaMaps = [t \in DeltaTypes |-> EmptyMap]
    /\ DirtyCells = {}
    /\ bIsInitialized = FALSE
    /\ CurrentWorldName = ""
    /\ InitializeResult = "none"
    /\ dirs = {}
    /\ files = [p \in {} |-> 0]
    /\ tasks = <<>>
    /\ appendLog = <<>>
    /\ appendedSince = {}
    /\ nAppends = 0
    /\ nFlushes = 0

RegistryInit ==
    /\ RuntimeSurfaceSpecs = EmptyRegistry
    /\ RuntimeMediumSpecs = EmptyRegistry
    /\ MediumSpecMap = EmptyRegistry
    /\ CachedManifests = EmptyRegistry
    /\ LoadResult = FailedLoad(<<>>)
    /\ lastSurface = EmptyRegistry
    /\ lastMedium = EmptyRegistry

EnvironmentInit ==
    /\ RegisteredVolumes = <<>>
    /\ DefaultMediumSpec = NullAsset
    /\ GlobalAtmosphereField = FALSE

\* UTimeSubsystem's member initialisers and Initialize; one world is loaded.
TimeInit ==
    /\ SimTimeSeconds = 0
    /\ TimeScale = ClampAndValidate(1, FALSE)
    /\ bPaused = FALSE
    /\ bAllowNegativeTimeScale = FALSE
    /\ ClockMode = "RealTime"
    /\ FixedStepSeconds = 4
    /\ LastStepSeconds = 0
    /\ Accumulator = 0
    /\ LoadedWorlds = {"W1"}
    /\ inFrame = FALSE
    /\ FrameDelta = 0
    /\ Ticked = {}
    /\ SimTimeAtFrameStart = 0
    /\ frameSteady = TRUE
    /\ nFrames = 0

FlushHistInit ==
    /\ lastSnapshot = [p \in {} |-> 0]
    /\ writeFailed = FALSE

Init == StoreInit /\ RegistryInit /\ EnvironmentInit /\ TimeInit /\ FlushHistInit

\* The delta store: the calls made on the game thread and the steps of the
\* background tasks.
Next ==
    \/ NewStore /\ UNCHANGED otherThanStore
    \/ \E w \in WorldNames, created \in BOOLEAN : Initialize(w, created) /\ UNCHANGED otherThanStore
    \/ \E t \in AppendTypes, k \in CellKeys :
          AppendDelta(t, [CellKey |-> k, Timestamp |-> nAppends + 1]) /\ UNCHANGED otherThanStore
    \/ \E k \in CellKeys : ClearCellDeltas(k) /\ UNCHANGED otherThanStore
    \/ Flush /\ UNCHANGED otherThanStore
    \/ \E i \in 1..Len(tasks), ok \in BOOLEAN : TaskWriteCell(i, ok) /\ UNCHANGED otherThanStore

Spec == Init /\ [][Next]_vars

\* The set of the elements of a sequence.
Range(seq) == {seq[i] : i \in 1..Len(seq)}

\* The file path a task writes a cell's deltas.json to.
TaskPath(T, k) == <<T.SaveDir, CellKeyToString(k)>>

\* History kept with a Flush call: when it launched a task, the snapshot that task
\* holds becomes the latest snapshot of each of its cells' files.
RecordFlush ==
    /\ lastSnapshot' =
          IF Len(tasks') > Len(tasks)
          THEN LET T == tasks'[Len(tasks')]
                   cellOf(p) == CHOOSE k \in Range(T.CellsToFlush) : TaskPath(T, k) = p
                   flushed == {TaskPath(T, k) : k \in Range(T.CellsToFlush)}
               IN [p \in DOMAIN lastSnapshot \cup flushed |->
                      IF p \in flushed
                      THEN [n |-> IF p \in DOMAIN lastSnapshot THEN lastSnapshot[p].n + 1 ELSE 1,
                            data |-> CellData(T, cellOf(p))]
                      ELSE lastSnapshot[p]]
          ELSE lastSnapshot
    /\ UNCHANGED writeFailed

\* History kept with a task's write: whether it failed.
RecordWrite(ok) ==
    /\ writeFailed' = (writeFailed \/ ~ok)
    /\ UNCHANGED lastSnapshot

\* The delta store as in Next, with the history of its flushes recorded.
NextFlushOrder ==
    \/ NewStore /\ UNCHANGED <<outsideStore, flushHist>>
    \/ \E w \in WorldNames, created \in BOOLEAN :
          Initialize(w, created) /\ UNCHANGED <<outsideStore, flushHist>>
    \/ \E t \in AppendTypes, k \in CellKeys :
          /\ AppendDelta(t, [CellKey |-> k, Timestamp |-> nAppends + 1])
          /\ UNCHANGED <<outsideStore, flushHist>>
    \/ \E k \in CellKeys : ClearCellDeltas(k) /\ UNCHANGED <<outsideStore, flushHist>>
    \/ Flush /\ RecordFlush /\ UNCHANGED outsideStore
    \/ \E i \in 1..Len(tasks), ok \in BOOLEAN :
          TaskWriteCell(i, ok) /\ RecordWrite(ok) /\ UNCHANGED outsideStore

SpecFlushOrder == Init /\ [][NextFlushOrder]_vars

\* The spec registries and the SpecPack loader.
NextRegistry ==
    \/ \E Id \in RegisteredIds, v \in SurfaceSpecValues :
          RegisterRuntimeSurfaceSpec(Id, v) /\ UNCHANGED otherThanRegistry
    \/ \E Id \in RegisteredIds, v \in MediumSpecValues :
          RegisterRuntimeMediumSpec(Id, v) /\ UNCHANGED otherThanRegistry
    \/ \E Id \in RegisteredIds, a \in MediumAssets :
          RegisterMediumSpec(Id, a) /\ UNCHANGED otherThanRegistry
    \/ ClearRuntimeSpecs /\ UNCHANGED otherThanRegistry
    \/ ClearRuntimeMediumSpecs /\ UNCHANGED otherThanRegistry
    \/ EnvironmentDeinitialize /\ UNCHANGED <<storeVars, timeVars, flushHist>>
    \/ \E p \in FilePaths, f \in SpecFiles : LoadSpecPack(p, f) /\ UNCHANGED otherThanRegistry

SpecRegistry == Init /\ [][NextRegistry]_vars

\* The environment subsystem: volumes, default spec, atmosphere field, DataAsset
\* registry.
NextEnvironment ==
    \/ \E v \in Volumes : RegisterVolume(v) /\ UNCHANGED otherThanEnvironment
    \/ \E v \in Volumes : UnregisterVolume(v) /\ UNCHANGED otherThanEnvironment
    \/ \E a \in DefaultAssets : SetDefaultMediumSpec(a) /\ UNCHANGED otherThanEnvironment
    \/ \E b \in BOOLEAN : SetGlobalAtmosphereField(b) /\ UNCHANGED otherThanEnvironment
    \/ \E Id \in RegisteredIds, a \in MediumAssets :
          RegisterMediumSpec(Id, a) /\ UNCHANGED otherThanRegistry
    \/ EnvironmentDeinitialize /\ UNCHANGED <<storeVars, timeVars, flushHist>>

SpecEnvironment == Init /\ [][NextEnvironment]_vars

\* The simulation clock: engine frames, the bridges' ticks and the setters.
NextTime ==
    \/ \E dt \in FrameDeltas : BeginFrame(dt) /\ UNCHANGED otherThanTime
    \/ \E w \in Worlds : BridgeTick(w) /\ UNCHANGED otherThanTime
    \/ EndFrame /\ UNCHANGED otherThanTime
    \/ \E w \in Worlds : LoadWorld(w) /\ UNCHANGED otherThanTime
    \/ \E w \in Worlds : UnloadWorld(w) /\ UNCHANGED otherThanTime
    \/ \E b \in BOOLEAN : SetPaused(b) /\ UNCHANGED otherThanTime
    \/ \E x \in TimeScales : SetTimeScale(x) /\ UNCHANGED otherThanTime
    \/ \E b \in BOOLEAN : SetAllowNegativeTimeScale(b) /\ UNCHANGED otherThanTime
    \/ \E m \in {"RealTime", "FixedStep"} : SetClockMode(m) /\ UNCHANGED otherThanTime
    \/ \E x \in FixedSteps : SetFixedStepSeconds(x) /\ UNCHANGED otherThanTime

SpecTime == Init /\ [][NextTime]_vars

\* ------------------------------------------------------------------ claims
K0 == CellKey(0, 0, 0)
K1 == CellKey(0, 0, 1)

\* The deltas of type t that the logged Append calls carried with a CellKey equal
\* to k in X, Y and LOD, in call order.
LoggedDeltas(t, k) ==
    LET sel == SelectSeq(appendLog,
                         LAMBDA e : /\ e.type = t
                                    /\ e.delta.CellKey.X = k.X
                                    /\ e.delta.CellKey.Y = k.Y
                                    /\ e.delta.CellKey.LOD = k.LOD)
    IN [i \in 1..Len(sel) |-> sel[i].delta]

\* C1: whatever Append, Flush, Initialize and task steps have happened, for every
\* type and every cell, Get<Type>Deltas(cell) is exactly the sequence of deltas of
\* that type appended with that CellKey (equal in X, Y and LOD) since the cell was
\* last cleared, in the order they were appended.  For a cell that was never
\* cleared this is every delta ever appended for it.
C1_AppendOnlyPerCell ==
    \A t \in DeltaTypes, k \in CellKeys : GetDeltas(t, k) = LoggedDeltas(t, k)

\* C1 witness: after a Flush, two cells that differ only in LOD each hold their own
\* delta, appended in that order, and neither was cleared.
C1_Witness ==
    /\ nFlushes >= 1
    /\ Len(GetDeltas("Surface", K0)) = 1 /\ GetDeltas("Surface", K0)[1].Timestamp = 1
    /\ Len(GetDeltas("Surface", K1)) = 1 /\ GetDeltas("Surface", K1)[1].Timestamp = 2
    /\ Len(appendLog) = 2

\* A step in which Flush launched a task.
FlushLaunched == Len(tasks') = Len(tasks) + 1
LaunchedTask == tasks'[Len(tasks')]

\* The launched task's snapshot holds cell k with the store's complete current
\* lists of all six types.
SnapshotComplete(k) ==
    /\ k \in Range(LaunchedTask.CellsToFlush)
    /\ \A t \in DeltaTypes : MapFind(LaunchedTask.Copies[t], k) = GetDeltas(t, k)

\* Cells that received an Append since they were last flushed and were not
\* cleared since that Append.
AppendedSinceFlushOrClear ==
    {k \in appendedSince : \E i \in 1..Len(appendLog) : appendLog[i].delta.CellKey = k}

\* C2 as stated: a Flush on an initialized store that launches a task schedules
\* a write, with the complete current lists of all six types, for every cell that
\* received an Append since it was last flushed, and leaves no cell dirty.
C2_Original ==
    [][(bIsInitialized /\ FlushLaunched) =>
          /\ \A k \in appendedSince : SnapshotComplete(k)
          /\ DirtyCells' = {}]_vars

\* C2 amended: on an initialized store, Flush schedules a write, with the complete
\* current lists of all six types, for every cell that received an Append since
\* it was last flushed and was not cleared by ClearCellDeltas since that Append;
\* these are exactly the dirty cells, and Flush leaves no cell dirty.
C2_FlushWritesDirtyCells ==
    [][/\ DirtyCells = AppendedSinceFlushOrClear
       /\ (Flush /\ bIsInitialized /\ AppendedSinceFlushOrClear # {}) =>
             /\ FlushLaunched
             /\ Range(LaunchedTask.CellsToFlush) = AppendedSinceFlushOrClear
             /\ \A k \in AppendedSinceFlushOrClear : SnapshotComplete(k)
             /\ DirtyCells' = {}]_vars

\* C2 witness: a task just launched for two cells, holding deltas of two types,
\* with no cell left dirty.
C2_Witness ==
    /\ bIsInitialized /\ DirtyCells = {}
    /\ \E i \in 1..Len(tasks) :
          /\ tasks[i].next = 1
          /\ Range(tasks[i].CellsToFlush) = {K0, K1}
          /\ MapFind(tasks[i].Copies["Surface"], K0) # <<>>
          /\ MapFind(tasks[i].Copies["Spawn"], K1) # <<>>

\* The array a deltas.json content holds for type t (empty when the field is absent).
FileArray(content, t) ==
    IF FieldName(t) \in DOMAIN content.arrays THEN content.arrays[FieldName(t)] ELSE <<>>

\* C3: on a store initialized for a world, for a cell with no in-memory entry
\* whose deltas.json exists under that world, Get<Type>Deltas(cell) returns the
\* deltas of that type the file holds.
C3_LazyLoad ==
    \A k \in CellKeys :
        (/\ bIsInitialized
         /\ InitializeResult = "true"
         /\ \A t \in DeltaTypes : ~MapContains(DeltaMaps[t], k)
         /\ <<CurrentWorldName, CellKeyToString(k)>> \in DOMAIN files)
        => \A t \in DeltaTypes :
              [i \in 1..Len(GetDeltas(t, k)) |-> UStructToJsonObject(GetDeltas(t, k)[i])]
                 = FileArray(files[<<CurrentWorldName, CellKeyToString(k)>>], t)

\* What each task in flight has still to write: per task, per remaining position
\* of its CellsToFlush, the CellData it will save.
PendingWrites ==
    [i \in 1..Len(tasks) |->
        [n \in tasks[i].next..Len(tasks[i].CellsToFlush) |->
            CellData(tasks[i], tasks[i].CellsToFlush[n])]]

\* C4: a task writes only from the snapshot taken during its Flush call: no step
\* that changes the live in-memory maps (Append, ClearCellDeltas, a new store)
\* changes what a task in flight has still to write, and every file content
\* written is what some task in flight had pending for its next cell.
C4_TaskWritesSnapshot ==
    [][/\ (/\ DeltaMaps' # DeltaMaps
           /\ Len(tasks') >= Len(tasks)
           /\ SubSeq(tasks', 1, Len(tasks)) = tasks)
          => SubSeq(PendingWrites', 1, Len(tasks)) = PendingWrites
       /\ \A p \in DOMAIN files' :
             (p \notin DOMAIN files \/ files'[p] # files[p])
             => \E i \in 1..Len(tasks) : PendingWrites[i][tasks[i].next] = files'[p]]_vars

\* C4 witness: a task is in flight for a cell whose in-memory lists have changed
\* since the Flush that launched it, and a file has been written.
C4_Witness ==
    /\ DOMAIN files # {}
    /\ \E i \in 1..Len(tasks) : \E n \in tasks[i].next..Len(tasks[i].CellsToFlush) :
          \E t \in DeltaTypes :
             MapFind(tasks[i].Copies[t], tasks[i].CellsToFlush[n])
                # GetDeltas(t, tasks[i].CellsToFlush[n])

\* C5: after a call to Initialize that returns true, every Get<Type>Deltas call
\* returns an empty array and no cell is dirty.
C5_InitializeClears ==
    [][((\E w \in WorldNames, created \in BOOLEAN : Initialize(w, created))
        /\ InitializeResult' = "true")
       => /\ \A t \in DeltaTypes, k \in CellKeys : GetDeltas(t, k)' = <<>>
          /\ DirtyCells' = {}]_vars

\* C6: whenever the most recent Initialize call returned false, IsInitialized() is
\* false and Flush launches no task.
C6_FailedInitialize ==
    [][InitializeResult = "false" => (~bIsInitialized /\ ~FlushLaunched)]_vars

C8_ThreeTier ==
    \A Id \in SpecIds :
        LET m == ResolveMediumSpec(Id)
        IN /\ (Id \notin DOMAIN RuntimeMediumSpecs /\ Id \in DOMAIN MediumSpecMap)
                => (m.ret /\ m.OutSpec.Density = MediumSpecMap[Id].Density)
           /\ ~m.ret => (Id \notin DOMAIN RuntimeMediumSpecs /\ Id \notin DOMAIN MediumSpecMap)

\* The parsed items of a field that no later parsed item of the same id overrides.
CountedItems(field) ==
    LET its == ParsedItems(field)
    IN {its[i] : i \in {j \in 1..Len(its) : \A l \in (j + 1)..Len(its) : its[l].id # its[j].id}}

\* C9: after LoadSpecPack returned bSuccess = true, every surface and medium spec
\* it counted resolves, by its id, with return value true and the loaded values.
C9_LoadRegisters ==
    [][\A p \in FilePaths, f \in SpecFiles :
          (LoadSpecPack(p, f) /\ LoadResult'.bSuccess)
          => /\ \A it \in CountedItems(f.surface_specs) :
                   ResolveSurfaceSpec(it.id)' = [ret |-> TRUE, OutSpec |-> ParsedSurfaceSpec(it)]
             /\ \A it \in CountedItems(f.medium_specs) :
                   ResolveMediumSpec(it.id)' = [ret |-> TRUE, OutSpec |-> ParsedMediumSpec(it)]]_vars

C11_LoadValidates ==
    [][\A p \in FilePaths, f \in SpecFiles :
          (LoadSpecPack(p, f) /\ ~ValidateSpecPack(f)) => ~LoadResult'.bSuccess]_vars

\* The registered, valid volumes whose box contains the location.
ContainingVolumes(WorldLocation) ==
    {v \in Volumes : /\ ArrayContains(RegisteredVolumes, v)
                     /\ VolumePool[v].Valid
                     /\ WorldLocation \in VolumePool[v].Box}

\* C12: whenever registered, valid volumes contain the location, the volume the
\* query uses is one of them and no other of them has a higher Priority, for
\* every int32 Priority, INT_MIN included.
C12_VolumePriority ==
    \A loc \in Locations :
        ContainingVolumes(loc) # {}
        => /\ FindVolumeAtLocation(loc) \in ContainingVolumes(loc)
           /\ \A v \in ContainingVolumes(loc) :
                 VolumePool[FindVolumeAtLocation(loc)].Priority >= VolumePool[v].Priority

\* C13: the context GetEnvironmentAtLocation returns is built from the
\* DefaultMediumSpec only when no registered volume contains the location and no
\* GlobalAtmosphereField is set; with an atmosphere field set, a location in a
\* volume whose MediumSpecId is not registered gets the field's context.
C13_DefaultMediumSpecLast ==
    \A loc \in Locations :
        LET Context == GetEnvironmentAtLocation(loc)
            Volume == FindVolumeAtLocation(loc)
        IN /\ (/\ ~DefaultMediumSpec.null
               /\ Context.bIsValid
               /\ Context.Density = DefaultMediumSpec.Density)
              => (ContainingVolumes(loc) = {} /\ ~GlobalAtmosphereField)
           /\ (/\ GlobalAtmosphereField
               /\ Volume # "nullptr"
               /\ VolumePool[Volume].MediumSpecId \notin DOMAIN MediumSpecMap)
              => Context = CreateEnvironmentContextAtLocation(loc)

\* C14: at the end of an engine frame of duration FrameDelta during which the
\* clock stayed unpaused, in RealTime mode and with one TimeScale, SimTimeSeconds
\* has increased by exactly FrameDelta * TimeScale, however many worlds ticked.
C14_OneAdvancePerFrame ==
    (/\ nFrames > 0
     /\ ~inFrame
     /\ frameSteady
     /\ ~bPaused
     /\ ClockMode = "RealTime")
    => SimTimeSeconds = SimTimeAtFrameStart + FrameDelta * TimeScale

\* C15: once no task is in flight and no write has failed, the deltas.json of a
\* cell that two or more Flush calls included holds the snapshot taken by the
\* latest of them.
C15_FlushOrder ==
    (tasks = <<>> /\ ~writeFailed)
    => \A p \in DOMAIN lastSnapshot :
          lastSnapshot[p].n >= 2 => (p \in DOMAIN files /\ files[p] = lastSnapshot[p].data)
====
